---- MODULE Spec2Model ----
(***************************************************************************)
(* Text layout and compositing of imageproc's src/drawing/text.rs:         *)
(* text_size, draw_text(_mut), GlyphString, find_text_area_coordinates and *)
(* GlyphStrings.                                                           *)
(*                                                                         *)
(* Number representation.  TLC's integers are 32 bits wide, so a Rust u32  *)
(* is represented by its 32-bit pattern read as two's complement: the u32  *)
(* value v is the integer v when v < 2^31 and v - 2^32 otherwise.  An i32  *)
(* is represented by itself.  With this representation the casts           *)
(* `u32 as i32` and `i32 as u32` keep the representing integer, and the    *)
(* wrapping arithmetic of both types is the same operation on patterns;    *)
(* the two types differ in their order (ULt) and in when an operation      *)
(* overflows.  Arithmetic overflow panics when the crate is built with     *)
(* overflow checks (cargo's dev profile) and wraps otherwise (release):    *)
(* the variable overflow_checks holds the build's choice.                  *)
(*                                                                         *)
(* Pixels are one u8 channel (Luma<u8>).  Coverage values are the          *)
(* fractions k / CovDen, EdgePosition values are whole percentages.        *)
(***************************************************************************)
EXTENDS Integers, Sequences, FiniteSets, TLC

VARIABLES
    overflow_checks, \* the build: TRUE when integer overflow panics
    args,            \* the arguments the caller passes (fixed per behaviour)
    image,           \* the caller's surface
    out,             \* the image the last copying draw returned, NoImage before it
    last,            \* the operation called last, "none" before the first
    ret,             \* what the last size / anchor call returned, or None
    origins,         \* the draw_mut calls of the last positioned draw, in order
    touched,         \* coordinates passed to get_pixel / put_pixel by the last call
    panicked,        \* TRUE once a call has panicked
    calls            \* number of calls made

vars == <<overflow_checks, args, image, out, last, ret, origins, touched, panicked, calls>>

\* no value: the empty tuple
None == <<>>
NoImage == [w |-> 0, h |-> 0, px |-> <<>>]

\* the element of a one-element set: The({e(s) : s \in {v}}) is e(v) with v
\* evaluated once (TLC evaluates a LET definition at every use, and a bound
\* variable only when it is bound)
The(S) == CHOOSE r \in S : TRUE

Max(a, b) == IF a >= b THEN a ELSE b
Min(a, b) == IF a <= b THEN a ELSE b

-----------------------------------------------------------------------------
(* Bounds of the model *)

\* calls made in one behaviour
MaxCalls == 2
\* glyphs in a text of the single-string operations
MaxLen == 2

-----------------------------------------------------------------------------
(* 32-bit machine integers *)

MaxI32 == 2147483647
MinI32 == (-MaxI32) - 1

\* a + b modulo 2^32 on patterns, computed without leaving [MinI32, MaxI32]
WrapAdd(a, b) ==
    IF a >= 0 /\ b >= 0
    THEN IF a > MaxI32 - b THEN ((a - MaxI32) - 1) + ((b - MaxI32) - 1) ELSE a + b
    ELSE IF a < 0 /\ b < 0
         THEN IF a < MinI32 - b THEN ((a + MaxI32) + 1) + ((b + MaxI32) + 1) ELSE a + b
         ELSE a + b

\* -b modulo 2^32
WrapNeg(b) == IF b = MinI32 THEN MinI32 ELSE -b

\* i32 `a + b`: the wrapped sum and whether the signed sum left the type
I32Add(a, b) ==
    [ovf |-> \/ (a >= 0 /\ b >= 0 /\ a > MaxI32 - b)
             \/ (a < 0 /\ b < 0 /\ a < MinI32 - b),
     val |-> WrapAdd(a, b)]

\* the order of u32 on patterns: a negative pattern is a value >= 2^31
ULt(a, b) == IF (a < 0) = (b < 0) THEN a < b ELSE b < 0

\* u32 `a + b`: the wrapped sum and whether the unsigned sum reached 2^32
U32Add(a, b) ==
    [ovf |-> \/ (a < 0 /\ b < 0)
             \/ ((a < 0) # (b < 0) /\ WrapAdd(a, b) >= 0),
     val |-> WrapAdd(a, b)]

\* u32 `a - b`: the wrapped difference and whether b exceeded a
U32Sub(a, b) == [ovf |-> ULt(a, b), val |-> WrapAdd(a, WrapNeg(b))]

\* U32Half that rounds up
U32Half_up(a) == IF a >= 0 THEN (a + 1) \div 2 ELSE (MaxI32 + ((a + 1) \div 2)) + 1

\* u32 `a / 2`
U32Half(a) == IF a >= 0 THEN a \div 2 ELSE (MaxI32 + (a \div 2)) + 1

\* `u as i32` and `i as u32`: the pattern is kept
AsI32(u) == u
AsU32(i) == i

\* n rounded to the nearest multiple of 1/d, halves to the even quotient
RoundHalfEven(n, d) ==
    LET q == n \div d
        r == n % d
    IN  IF 2 * r > d \/ (2 * r = d /\ q % 2 = 1) THEN q + 1 ELSE q

\* 2^k for small k
RECURSIVE Pow2(_)
Pow2(k) == IF k = 0 THEN 1 ELSE 2 * Pow2(k - 1)

\* the j with 2^-(j+1) <= e/100 < 2^-j, for 0 < e < 100
RECURSIVE Binade(_, _)
Binade(e, j) == IF 2 * e * Pow2(j) >= 100 THEN j ELSE Binade(e, j + 1)

\* `(d as f32 * e / 100.0) as u32` for a u32 pattern d and a whole percentage
\* e in 0..100.  For 0 <= d < 2^17 every intermediate value is below 2^24 or
\* within 1/128 of the exact quotient, so the truncated result is the exact
\* floor.  A wrapped difference d in -128..-1 is the u32 2^32 + d, which
\* `as f32` rounds to 2^32; 2^32 * e is exact, the quotient by 100 is rounded
\* to 24 significant bits, and `as u32` truncates and saturates at 2^32 - 1.
SlideF32(d, e) ==
    IF d >= 0 THEN (d * e) \div 100
    ELSE IF e = 0 THEN 0
    ELSE IF e >= 100 THEN -1
    ELSE LET j == Binade(e, 0)
             m == RoundHalfEven(e * Pow2(24 + j), 100)
         IN  IF j = 0 THEN (m - Pow2(24)) * Pow2(8)
             ELSE m * Pow2(8 - j)

-----------------------------------------------------------------------------
(* The font and the rasterizer (rusttype), as the code uses them *)

\* coverage k stands for the f32 k / CovDen
CovDen == 2

Chars == {" ", "i", "j"}

\* font.v_metrics(scale) of the font and scale of the model
VMetrics == [ascent |-> 2, descent |-> -1]

\* h_metrics().advance_width of a glyph
AdvanceWidth(ch) == IF ch = "j" THEN 2 ELSE 1

\* Option<Rect<i32>>::None
NoBox == [some |-> FALSE]

\* The outline's pixel box relative to the glyph's position (x from the caret,
\* y from the baseline), or NoBox for a glyph without outline (whitespace).
\* "j" reaches left of its caret and below the baseline.
GlyphBox(ch) ==
    CASE ch = "i" -> [some |-> TRUE, min |-> <<0, -2>>, max |-> <<1, 0>>]
      [] ch = "j" -> [some |-> TRUE, min |-> <<-1, -1>>, max |-> <<1, 1>>]
      [] OTHER -> NoBox

\* coverage of the sample (gx, gy) of a glyph's box
Coverage(ch, gx, gy) ==
    CASE ch = "i" -> IF gy = 0 THEN CovDen ELSE 1
      [] ch = "j" -> IF gx = 1 THEN CovDen ELSE IF gy = 0 THEN 0 ELSE 1
      [] OTHER -> 0

\* font.layout(text, scale, point(0.0, ascent)): one positioned glyph per
\* character, the caret advancing by each glyph's advance width
RECURSIVE Layout(_, _)
Layout(text, caret) ==
    IF text = <<>> THEN <<>>
    ELSE <<[ch |-> Head(text), x |-> caret, y |-> VMetrics.ascent]>>
         \o Layout(Tail(text), caret + AdvanceWidth(Head(text)))

\* PositionedGlyph::pixel_bounding_box
pixel_bounding_box(g) ==
    LET b == GlyphBox(g.ch)
    IN  IF ~b.some THEN NoBox
        ELSE [some |-> TRUE,
              min |-> <<g.x + b.min[1], g.y + b.min[2]>>,
              max |-> <<g.x + b.max[1], g.y + b.max[2]>>]

\* PositionedGlyph::draw(o): the samples o is called with, row by row
GlyphSamples(g) ==
    LET bb == pixel_bounding_box(g)
        w == bb.max[1] - bb.min[1]
        h == bb.max[2] - bb.min[2]
    IN  [k \in 1..(w * h) |->
            LET gx == (k - 1) % w
                gy == (k - 1) \div w
            IN  <<gx, gy, Coverage(g.ch, gx, gy)>>]

-----------------------------------------------------------------------------
(* Surfaces and blending *)

ChannelMax == 255

Coords(img) == (0..(img.w - 1)) \X (0..(img.h - 1))

\* an image of the given size whose pixels all differ
NewImage(w, h) == [w |-> w, h |-> h,
                   px |-> [p \in (0..(w - 1)) \X (0..(h - 1)) |-> 30 + 25 * (p[1] + w * p[2])]]

Clamp(v) == IF v < 0 THEN 0 ELSE IF v > ChannelMax THEN ChannelMax ELSE v

\* pixelops::weighted_sum(p, q, w1 / CovDen, w2 / CovDen)
weighted_sum(p, q, w1, w2) == Clamp((p * w1 + q * w2) \div CovDen)

\* a surface while a draw runs: the pixels, the coordinates accessed, and
\* whether the draw has panicked
Canvas(img) == [img |-> img, touched |-> {}, panic |-> FALSE]

\* BlendAt with the two weights exchanged
BlendAt_swapped(acc, ix, iy, color, gv) ==
    IF <<ix, iy>> \notin Coords(acc.img)
    THEN [acc EXCEPT !.touched = @ \cup {<<ix, iy>>}, !.panic = TRUE]
    ELSE [acc EXCEPT !.touched = @ \cup {<<ix, iy>>},
                     !.img.px[<<ix, iy>>] =
                         weighted_sum(acc.img.px[<<ix, iy>>], color, gv, CovDen - gv)]

\* canvas.get_pixel, weighted_sum, canvas.draw_pixel / image.put_pixel at
\* (ix, iy); an access outside the buffer panics in the image crate
BlendAt(acc, ix, iy, color, gv) ==
    IF <<ix, iy>> \notin Coords(acc.img)
    THEN [acc EXCEPT !.touched = @ \cup {<<ix, iy>>}, !.panic = TRUE]
    ELSE LET pixel == acc.img.px[<<ix, iy>>]
             weighted_color == weighted_sum(pixel, color, CovDen - gv, gv)
         IN  [acc EXCEPT !.touched = @ \cup {<<ix, iy>>},
                         !.img.px[<<ix, iy>>] = weighted_color]

-----------------------------------------------------------------------------
(* layout_glyphs, text_size, draw_text_mut, draw_text *)

\* layout_glyphs(scale, font, text, f): the size (w, h) returned, and the
\* calls f(g, bb) made, in order: one for every glyph with a bounding box
layout_glyphs(text) ==
    LET glyphs == Layout(text, 0)
        step[i \in 0..Len(glyphs)] ==
            IF i = 0 THEN [w |-> 0, h |-> 0, f |-> <<>>]
            ELSE The({LET g == glyphs[i]
                          bb == pixel_bounding_box(g)
                      IN  IF ~bb.some THEN s
                          ELSE [w |-> Max(s.w, bb.max[1]),
                                h |-> Max(s.h, bb.max[2]),
                                f |-> Append(s.f, [g |-> g, bb |-> bb])]
                      : s \in {step[i - 1]}})
    IN  step[Len(glyphs)]

\* text_size: layout_glyphs with a closure that does nothing
text_size(text) ==
    LET r == layout_glyphs(text)
    IN  <<r.w, r.h>>

\* draw_text_sample with a bounds test that admits the column image_width
draw_text_sample_wide(acc, bb, color, x, y, gx0, gy0, gv) ==
    LET image_x == gx0 + bb.min[1] + x
        image_y == gy0 + bb.min[2] + y
    IN  IF image_x \in 0..acc.img.w /\ image_y \in 0..(acc.img.h - 1)
        THEN BlendAt(acc, image_x, image_y, color, gv)
        ELSE acc

\* the closure of draw_text_mut for one sample; nothing runs after a panic
draw_text_sample(acc, bb, color, x, y, gx0, gy0, gv) ==
    IF acc.panic THEN acc
    ELSE LET gx == I32Add(gx0, bb.min[1])
             gy == I32Add(gy0, bb.min[2])
             image_x == I32Add(gx.val, x)
             image_y == I32Add(gy.val, y)
             image_width == AsI32(acc.img.w)
             image_height == AsI32(acc.img.h)
         IN  IF overflow_checks /\ (gx.ovf \/ gy.ovf \/ image_x.ovf \/ image_y.ovf)
             THEN [acc EXCEPT !.panic = TRUE]
             ELSE IF /\ image_x.val \in 0..(image_width - 1)
                     /\ image_y.val \in 0..(image_height - 1)
                  THEN BlendAt(acc, AsU32(image_x.val), AsU32(image_y.val), color, gv)
                  ELSE acc

\* the closure draw_text_mut hands to layout_glyphs: g.draw calls the sample
\* closure on every sample of the glyph
draw_text_glyph(acc0, g, bb, color, x, y) ==
    LET samples == GlyphSamples(g)
        step[k \in 0..Len(samples)] ==
            IF k = 0 THEN acc0
            ELSE The({draw_text_sample(a, bb, color, x, y,
                                       samples[k][1], samples[k][2], samples[k][3])
                      : a \in {step[k - 1]}})
    IN  step[Len(samples)]

draw_text_mut(canvas, color, x, y, text) ==
    LET f == layout_glyphs(text).f
        step[i \in 0..Len(f)] ==
            IF i = 0 THEN canvas
            ELSE The({draw_text_glyph(acc, f[i].g, f[i].bb, color, x, y)
                      : acc \in {step[i - 1]}})
    IN  step[Len(f)]

\* CopyOf without the copy_from: the new buffer keeps its zeroed pixels
CopyOf_blank(img) == [w |-> img.w, h |-> img.h, px |-> [p \in Coords(img) |-> 0]]

\* ImageBuffer::new(image.width(), image.height()) and out.copy_from(image, 0, 0)
CopyOf(img) == [w |-> img.w, h |-> img.h, px |-> [p \in Coords(img) |-> img.px[p]]]

draw_text(img, color, x, y, text) ==
    draw_text_mut(Canvas(CopyOf(img)), color, x, y, text)

-----------------------------------------------------------------------------
(* GlyphString *)

\* GlyphString::new: every glyph of the layout is kept
GlyphString_new(text) == [glyphs |-> Layout(text, 0)]

RECURSIVE SumAdvance(_)
SumAdvance(glyphs) ==
    IF glyphs = <<>> THEN 0
    ELSE AdvanceWidth(Head(glyphs).ch) + SumAdvance(Tail(glyphs))

\* GlyphString_width without the padding of 2
GlyphString_width_nopad(self) == AsU32(SumAdvance(self.glyphs))

\* 2 + (sum of the advance widths) as u32
GlyphString_width(self) == 2 + AsU32(SumAdvance(self.glyphs))

\* ((ascent - descent) * 1.1) as u32 of the first glyph's font, 0 without one.
\* The f32 nearest to 1.1 exceeds it by less than 3e-8, so for the whole
\* numbers below 2^17 the truncated product is the floor of the exact one.
GlyphString_height(self) ==
    IF self.glyphs = <<>> THEN 0
    ELSE ((VMetrics.ascent - VMetrics.descent) * 11) \div 10

\* draw_mut_sample that forgets the glyph's bb.min.y
draw_mut_sample_nominy(acc, bb, color, x, y, gx0, gy0, gv) ==
    LET image_x == gx0 + bb.min[1] + x
        image_y == gy0 + y
    IN  IF image_x \in 0..(acc.img.w - 1) /\ image_y \in 0..(acc.img.h - 1)
        THEN BlendAt(acc, image_x, image_y, color, gv)
        ELSE acc

\* the closure of GlyphString::draw_mut for one sample
draw_mut_sample(acc, bb, color, x, y, gx0, gy0, gv) ==
    IF acc.panic THEN acc
    ELSE LET gx == I32Add(gx0, bb.min[1])
             gy == I32Add(gy0, bb.min[2])
             image_x == I32Add(gx.val, AsI32(x))
             image_y == I32Add(gy.val, AsI32(y))
             image_width == AsI32(acc.img.w)
             image_height == AsI32(acc.img.h)
         IN  IF overflow_checks /\ (gx.ovf \/ gy.ovf \/ image_x.ovf \/ image_y.ovf)
             THEN [acc EXCEPT !.panic = TRUE]
             ELSE IF /\ image_x.val >= 0
                     /\ image_x.val < image_width
                     /\ image_y.val >= 0
                     /\ image_y.val < image_height
                  THEN BlendAt(acc, AsU32(image_x.val), AsU32(image_y.val), color, gv)
                  ELSE acc

\* g.draw of GlyphString::draw_mut: the sample closure on every sample
draw_mut_glyph(acc0, g, bb, color, x, y) ==
    LET samples == GlyphSamples(g)
        step[k \in 0..Len(samples)] ==
            IF k = 0 THEN acc0
            ELSE The({draw_mut_sample(a, bb, color, x, y,
                                      samples[k][1], samples[k][2], samples[k][3])
                      : a \in {step[k - 1]}})
    IN  step[Len(samples)]

\* GlyphString::draw_mut(image, color, x: u32, y: u32)
GlyphString_draw_mut(self, canvas, color, x, y) ==
    LET step[i \in 0..Len(self.glyphs)] ==
            IF i = 0 THEN canvas
            ELSE The({LET g == self.glyphs[i]
                          bb == pixel_bounding_box(g)
                      IN  IF bb.some
                          THEN draw_mut_glyph(acc, g, bb, color, x, y)
                          ELSE acc
                      : acc \in {step[i - 1]}})
    IN  step[Len(self.glyphs)]

GlyphString_draw(self, img, color, x, y) ==
    GlyphString_draw_mut(self, Canvas(CopyOf(img)), color, x, y)

-----------------------------------------------------------------------------
(* Rect, EdgePosition, Position and the anchor *)

\* rect::Rect: the accessors the anchor uses
Rect_left(r) == r.left
Rect_top(r) == r.top
Rect_width(r) == r.width
Rect_height(r) == r.height
Rect_right(r) == r.left + AsI32(r.width)
Rect_bottom(r) == r.top + AsI32(r.height)

\* EdgePosition::left(), top(), center(), right(), bottom()
EdgePosition_left == 0
EdgePosition_top == 0
EdgePosition_center == 50
EdgePosition_right == 100
EdgePosition_bottom == 100

PositionKinds == {"HorizontalTop", "HorizontalCenter", "HorizontalBottom",
                  "VerticalLeft", "VerticalCenter", "VerticalRight", "Any"}

\* a Position: its variant and its EdgePosition values (v only for Any)
Position(kind, e, v) == [kind |-> kind, e |-> e, v |-> v]

\* calculate_center that divides the whole rectangle_size
calculate_center_whole(rectangle_size, content_size, relative_position) ==
    [ovf |-> FALSE, val |-> SlideF32(rectangle_size, relative_position)]

\* ((rectangle_size - content_size) as f32 * relative_position.0 / 100.0) as u32
calculate_center(rectangle_size, content_size, relative_position) ==
    LET d == U32Sub(rectangle_size, content_size)
    IN  [ovf |-> d.ovf, val |-> SlideF32(d.val, relative_position)]

\* `a + c` and `a + (s / 2)` of u32 where c, s come with an overflow flag
AddTo(a, c) ==
    LET r == U32Add(a, c.val)
    IN  [ovf |-> c.ovf \/ r.ovf, val |-> r.val]

HalfOf(s) == [ovf |-> s.ovf, val |-> U32Half(s.val)]

\* a u32 that needed no arithmetic
Plain(a) == [ovf |-> FALSE, val |-> a]

\* the match of find_text_area_coordinates: per variant the pair (x, y),
\* each coordinate with the flag of an overflow on the way to it
text_area_match(position, rectangle, width, height) ==
    CASE position.kind = "HorizontalCenter" ->
            <<AddTo(AsU32(Rect_left(rectangle)),
                    calculate_center(Rect_width(rectangle), width, position.e)),
              AddTo(AsU32(Rect_top(rectangle)),
                    HalfOf(U32Sub(Rect_height(rectangle), height)))>>
      [] position.kind = "HorizontalBottom" ->
            <<AddTo(AsU32(Rect_left(rectangle)),
                    calculate_center(Rect_width(rectangle), width, position.e)),
              U32Sub(AsU32(Rect_bottom(rectangle)), height)>>
      [] position.kind = "HorizontalTop" ->
            <<AddTo(AsU32(Rect_left(rectangle)),
                    calculate_center(Rect_width(rectangle), width, position.e)),
              Plain(AsU32(Rect_top(rectangle)))>>
      [] position.kind = "VerticalCenter" ->
            <<AddTo(AsU32(Rect_left(rectangle)),
                    HalfOf(U32Sub(Rect_width(rectangle), width))),
              AddTo(AsU32(Rect_top(rectangle)),
                    calculate_center(Rect_height(rectangle), height, position.e))>>
      [] position.kind = "VerticalRight" ->
            <<U32Sub(AsU32(Rect_right(rectangle)), width),
              AddTo(AsU32(Rect_top(rectangle)),
                    calculate_center(Rect_height(rectangle), height, position.e))>>
      [] position.kind = "VerticalLeft" ->
            <<Plain(AsU32(Rect_left(rectangle))),
              AddTo(AsU32(Rect_top(rectangle)),
                    calculate_center(Rect_height(rectangle), height, position.e))>>
      [] position.kind = "Any" ->
            <<AddTo(AsU32(Rect_left(rectangle)),
                    calculate_center(Rect_width(rectangle), width, position.e)),
              AddTo(AsU32(Rect_top(rectangle)),
                    calculate_center(Rect_height(rectangle), height, position.v))>>

\* find_text_area_coordinates as the build runs it: a panic on overflow under
\* overflow checks, else the pair of wrapped values
find_text_area_coordinates(position, rectangle, width, height) ==
    LET m == text_area_match(position, rectangle, width, height)
    IN  IF overflow_checks /\ (m[1].ovf \/ m[2].ovf)
        THEN [panic |-> TRUE, xy |-> None]
        ELSE [panic |-> FALSE, xy |-> <<m[1].val, m[2].val>>]

-----------------------------------------------------------------------------
(* Positioned draws *)

\* what a positioned draw leaves: the surface, the anchor, the draw_mut
\* calls made, and whether it panicked
GlyphString_draw_positioned_mut(self, canvas, color, position, rectangle) ==
    LET width == GlyphString_width(self)
        height == GlyphString_height(self)
    IN  The({IF a.panic
             THEN [canvas |-> [canvas EXCEPT !.panic = TRUE],
                   xy |-> None, origins |-> <<>>]
             ELSE [canvas |-> GlyphString_draw_mut(self, canvas, color,
                                                   a.xy[1], a.xy[2]),
                   xy |-> a.xy,
                   origins |-> <<[run |-> 1, color |-> color,
                                  x |-> a.xy[1], y |-> a.xy[2]]>>]
             : a \in {find_text_area_coordinates(position, rectangle, width, height)}})

GlyphString_draw_positioned(self, img, color, position, rectangle) ==
    GlyphString_draw_positioned_mut(self, Canvas(CopyOf(img)), color, position, rectangle)

\* GlyphStrings: self is the sequence of GlyphStrings
RECURSIVE GlyphStrings_height(_)
GlyphStrings_height(self) ==
    IF self = <<>> THEN 0
    ELSE Max(GlyphString_height(Head(self)), GlyphStrings_height(Tail(self)))

RECURSIVE GlyphStrings_width(_)
GlyphStrings_width(self) ==
    IF self = <<>> THEN 0
    ELSE GlyphString_width(Head(self)) + GlyphStrings_width(Tail(self))

\* Zip that pairs every run, repeating the last colour
Zip_all(self, colors) ==
    IF colors = <<>> THEN <<>>
    ELSE [i \in 1..Len(self) |-> <<self[i], colors[Min(i, Len(colors))]>>]

\* self.0.iter().zip(colors.iter()): the pairs up to the shorter length
Zip(self, colors) == [i \in 1..Min(Len(self), Len(colors)) |-> <<self[i], colors[i]>>]

\* draw_run without `x += string.width()`
draw_run_stay(st, i, string, color, y) ==
    [canvas |-> GlyphString_draw_mut(string, st.canvas, color, st.x, y),
     x |-> st.x,
     origins |-> Append(st.origins, [run |-> i, color |-> color, x |-> st.x, y |-> y])]

\* one turn of the loop of GlyphStrings::draw_positioned_mut from the state
\* st (surface, cursor x, calls made): string.draw_mut at the cursor, then
\* `x += string.width()`
draw_run(st, i, string, color, y) ==
    IF st.canvas.panic THEN st
    ELSE The({LET next == U32Add(st.x, GlyphString_width(string))
              IN  [canvas |-> IF overflow_checks /\ next.ovf
                              THEN [drawn EXCEPT !.panic = TRUE]
                              ELSE drawn,
                   x |-> next.val,
                   origins |-> Append(st.origins,
                                      [run |-> i, color |-> color,
                                       x |-> st.x, y |-> y])]
              : drawn \in {GlyphString_draw_mut(string, st.canvas, color, st.x, y)}})

positioned_runs(canvas, pairs, a) ==
    LET step[i \in 0..Len(pairs)] ==
            IF i = 0
            THEN [canvas |-> canvas, x |-> a.xy[1], origins |-> <<>>]
            ELSE The({draw_run(st, i, pairs[i][1], pairs[i][2], a.xy[2])
                      : st \in {step[i - 1]}})
    IN  The({[canvas |-> end.canvas, xy |-> a.xy, origins |-> end.origins]
             : end \in {step[Len(pairs)]}})

GlyphStrings_draw_positioned_mut(self, canvas, colors, position, rectangle) ==
    LET width == GlyphStrings_width(self)
        height == GlyphStrings_height(self)
    IN  The({IF a.panic
             THEN [canvas |-> [canvas EXCEPT !.panic = TRUE],
                   xy |-> None, origins |-> <<>>]
             ELSE positioned_runs(canvas, Zip(self, colors), a)
             : a \in {find_text_area_coordinates(position, rectangle, width, height)}})

-----------------------------------------------------------------------------
(* The inputs *)

RECURSIVE SeqsUpTo(_, _)
SeqsUpTo(S, n) ==
    IF n = 0 THEN {<<>>}
    ELSE LET shorter == SeqsUpTo(S, n - 1)
         IN  shorter \cup {Append(t, c) : t \in {u \in shorter : Len(u) = n - 1}, c \in S}

Texts == SeqsUpTo(Chars, MaxLen)

Sizes == {<<3, 2>>, <<2, 3>>}
Colors == {0, 255}
\* draw offsets (x, y): on the surface, partly off it, and far off it
Offsets == {<<0, 0>>, <<1, 0>>, <<0, 1>>, <<2, 1>>, <<-1, 1>>, <<1, -1>>, <<-4, 0>>, <<0, -3>>}

EdgeValues == {EdgePosition_left, 30, EdgePosition_center, EdgePosition_right}

Positions ==
    {Position(k, e, e) : k \in PositionKinds \ {"Any"}, e \in EdgeValues}
    \cup {Position("Any", e, v) : e \in EdgeValues, v \in EdgeValues}

Rect_at(left, top, width, height) ==
    [left |-> left, top |-> top, width |-> width, height |-> height]

\* rectangles: around the surface, smaller than most texts, and the spec's example
Rects == {Rect_at(0, 0, 3, 3), Rect_at(1, 0, 7, 4), Rect_at(0, 1, 2, 2), Rect_at(0, 0, 100, 50)}

\* content sizes passed to find_text_area_coordinates directly
ContentSizes == {<<2, 0>>, <<3, 3>>, <<4, 3>>, <<20, 10>>}

\* a text of the character c followed by n spaces
RECURSIVE Padded(_, _)
Padded(c, n) == IF n = 0 THEN <<c>> ELSE Append(Padded(c, n - 1), " ")

\* run lists of a GlyphStrings; the last has the widths 10, 15, 12
RunLists == {<<>>,
             <<<<"i">>>>,
             <<<<"j">>, <<"i", "j">>>>,
             <<<<>>, <<"i">>, <<"j">>>>,
             <<Padded("i", 7), Padded("j", 11), Padded("i", 9)>>}

ColorLists == {<<>>, <<255>>, <<255, 0>>, <<0, 255, 100>>, <<255, 0, 255, 0>>}

Args(color, xy, text, position, rectangle, size, runs, colors) ==
    [color |-> color, x |-> xy[1], y |-> xy[2], text |-> text,
     position |-> position, rectangle |-> rectangle,
     width |-> size[1], height |-> size[2],
     runs |-> runs, colors |-> colors]

InitState(a, size, chk) ==
    /\ overflow_checks = chk
    /\ args = a
    /\ image = NewImage(size[1], size[2])
    /\ out = NoImage
    /\ last = "none"
    /\ ret = None
    /\ origins = <<>>
    /\ touched = {}
    /\ panicked = FALSE
    /\ calls = 0

DefaultPosition == Position("HorizontalCenter", EdgePosition_center, EdgePosition_center)
DefaultRect == Rect_at(1, 0, 7, 4)

\* draws of one text at an offset
Init ==
    \E size \in Sizes, color \in Colors, xy \in Offsets, text \in Texts, chk \in BOOLEAN :
        InitState(Args(color, xy, text, DefaultPosition, DefaultRect, <<3, 3>>, <<>>, <<>>),
                  size, chk)

\* anchors of one text, or of a given content size, in a rectangle
InitAnchor ==
    \E position \in Positions, rectangle \in Rects, size \in ContentSizes,
       text \in {<<"i">>, <<"j", "i">>}, chk \in BOOLEAN :
        InitState(Args(255, <<0, 0>>, text, position, rectangle, size, <<>>, <<>>),
                  <<3, 3>>, chk)

\* anchors and draws of several runs
InitMulti ==
    \E position \in Positions, rectangle \in Rects \cup {Rect_at(5, 0, 40, 3)},
       runs \in RunLists, colors \in ColorLists, chk \in BOOLEAN :
        InitState(Args(255, <<0, 0>>, <<>>, position, rectangle, <<3, 3>>, runs, colors),
                  <<3, 3>>, chk)

-----------------------------------------------------------------------------
(* The calls *)

CanCall == ~panicked /\ calls < MaxCalls

\* a call that returns a value and draws nothing
Returns(op, value, panic) ==
    /\ last' = op
    /\ ret' = value
    /\ panicked' = panic
    /\ calls' = calls + 1
    /\ origins' = <<>>
    /\ touched' = {}
    /\ UNCHANGED <<overflow_checks, args, image, out>>

\* an in-place draw: the caller's surface is what the draw left, also when
\* it panicked on the way
DrawsInPlace(op, canvas, xy, calls_made) ==
    /\ last' = op
    /\ image' = canvas.img
    /\ touched' = canvas.touched
    /\ panicked' = canvas.panic
    /\ ret' = xy
    /\ origins' = calls_made
    /\ calls' = calls + 1
    /\ UNCHANGED <<overflow_checks, args, out>>

\* a copying draw: the copy is returned unless the draw panicked
DrawsCopy(op, canvas, xy, calls_made) ==
    /\ last' = op
    /\ out' = IF canvas.panic THEN out ELSE canvas.img
    /\ touched' = canvas.touched
    /\ panicked' = canvas.panic
    /\ ret' = xy
    /\ origins' = calls_made
    /\ calls' = calls + 1
    /\ UNCHANGED <<overflow_checks, args, image>>

Call_text_size ==
    /\ CanCall
    /\ Returns("text_size", text_size(args.text), FALSE)

Call_draw_text_mut ==
    /\ CanCall
    /\ \E canvas \in {draw_text_mut(Canvas(image), args.color, args.x, args.y, args.text)} :
           DrawsInPlace("draw_text_mut", canvas, None, <<>>)

Call_draw_text ==
    /\ CanCall
    /\ \E canvas \in {draw_text(image, args.color, args.x, args.y, args.text)} :
           DrawsCopy("draw_text", canvas, None, <<>>)

Call_GlyphString_width ==
    /\ CanCall
    /\ Returns("GlyphString::width", <<GlyphString_width(GlyphString_new(args.text))>>, FALSE)

Call_GlyphString_height ==
    /\ CanCall
    /\ Returns("GlyphString::height", <<GlyphString_height(GlyphString_new(args.text))>>, FALSE)

Call_GlyphString_draw_mut ==
    /\ CanCall
    /\ \E canvas \in {GlyphString_draw_mut(GlyphString_new(args.text), Canvas(image),
                                              args.color, AsU32(args.x), AsU32(args.y))} :
           DrawsInPlace("GlyphString::draw_mut", canvas, None, <<>>)

Call_GlyphString_draw ==
    /\ CanCall
    /\ \E canvas \in {GlyphString_draw(GlyphString_new(args.text), image,
                                          args.color, AsU32(args.x), AsU32(args.y))} :
           DrawsCopy("GlyphString::draw", canvas, None, <<>>)

Call_find_text_area_coordinates ==
    /\ CanCall
    /\ \E a \in {find_text_area_coordinates(args.position, args.rectangle,
                                              args.width, args.height)} :
           Returns("find_text_area_coordinates", a.xy, a.panic)

Call_GlyphString_draw_positioned_mut ==
    /\ CanCall
    /\ \E r \in {GlyphString_draw_positioned_mut(GlyphString_new(args.text), Canvas(image),
                                                   args.color, args.position,
                                                   args.rectangle)} :
           DrawsInPlace("GlyphString::draw_positioned_mut", r.canvas, r.xy, r.origins)

Call_GlyphString_draw_positioned ==
    /\ CanCall
    /\ \E r \in {GlyphString_draw_positioned(GlyphString_new(args.text), image,
                                               args.color, args.position,
                                               args.rectangle)} :
           DrawsCopy("GlyphString::draw_positioned", r.canvas, r.xy, r.origins)

\* GlyphStrings::new over the GlyphStrings of the runs
GlyphStrings_new(runs) == [i \in 1..Len(runs) |-> GlyphString_new(runs[i])]

Call_GlyphStrings_draw_positioned_mut ==
    /\ CanCall
    /\ \E r \in {GlyphStrings_draw_positioned_mut(GlyphStrings_new(args.runs),
                                                    Canvas(image), args.colors,
                                                    args.position, args.rectangle)} :
           DrawsInPlace("GlyphStrings::draw_positioned_mut", r.canvas, r.xy, r.origins)

Call_GlyphStrings_width ==
    /\ CanCall
    /\ Returns("GlyphStrings::width", <<GlyphStrings_width(GlyphStrings_new(args.runs))>>, FALSE)

Call_GlyphStrings_height ==
    /\ CanCall
    /\ Returns("GlyphStrings::height", <<GlyphStrings_height(GlyphStrings_new(args.runs))>>, FALSE)

Next ==
    \/ Call_text_size
    \/ Call_draw_text_mut
    \/ Call_draw_text
    \/ Call_GlyphString_width
    \/ Call_GlyphString_height
    \/ Call_GlyphString_draw_mut
    \/ Call_GlyphString_draw
    \/ Call_GlyphString_draw_positioned_mut

NextAnchor ==
    \/ Call_find_text_area_coordinates
    \/ Call_GlyphString_draw_positioned_mut
    \/ Call_GlyphString_draw_positioned

NextMulti ==
    \/ Call_GlyphStrings_draw_positioned_mut
    \/ Call_GlyphStrings_width
    \/ Call_GlyphStrings_height

Spec == Init /\ [][Next]_vars
SpecAnchor == InitAnchor /\ [][NextAnchor]_vars
SpecMulti == InitMulti /\ [][NextMulti]_vars

-----------------------------------------------------------------------------
(* What the claims speak of *)

InPlaceDraws == {"draw_text_mut", "GlyphString::draw_mut"}
CopyingDraws == {"draw_text", "GlyphString::draw"}
PlainDraws == InPlaceDraws \cup CopyingDraws

\* the samples of a text drawn at (x, y): surface coordinate and coverage
SamplesAt(text, x, y) ==
    LET glyphs == Layout(text, 0)
    IN  UNION {LET bb == pixel_bounding_box(glyphs[i])
               IN  IF ~bb.some THEN {}
                   ELSE {[at |-> <<gx + bb.min[1] + x, gy + bb.min[2] + y>>,
                          gv |-> Coverage(glyphs[i].ch, gx, gy)] :
                         gx \in 0..(bb.max[1] - bb.min[1] - 1),
                         gy \in 0..(bb.max[2] - bb.min[2] - 1)} :
               i \in 1..Len(glyphs)}

\* the glyph-covered footprint of the draw the arguments describe
Footprint == {s.at : s \in SamplesAt(args.text, args.x, args.y)}

\* the coverages of the samples that land on the coordinate c
CoveragesAt(c) == {s.gv : s \in {t \in SamplesAt(args.text, args.x, args.y) : t.at = c}}

\* C1: every pixel a draw reads or writes lies on the surface, whatever the
\* glyphs and the offset; a plain draw reaches exactly the samples that land
\* on the surface and skips the others without failing.
C1_InBounds ==
    /\ touched \subseteq Coords(image)
    /\ last \in PlainDraws => /\ ~panicked
                              /\ touched = Footprint \cap Coords(image)

\* a draw at a negative offset that reached the surface and skipped samples
C1_Witness ==
    /\ last = "draw_text_mut"
    /\ args.x < 0
    /\ touched # {}
    /\ Footprint \ Coords(image) # {}
    /\ ~panicked

EmptyText(width) ==
    (args.text = <<>>) =>
        /\ last' = "GlyphString::width" => ret' = <<width>>
        /\ last' = "GlyphString::height" => ret' = <<0>>
        /\ last' = "text_size" => ret' = <<0, 0>>
        /\ last' \in InPlaceDraws \cup {"GlyphString::draw_positioned_mut"} =>
               ~panicked' /\ touched' = {} /\ image' = image
        /\ last' \in CopyingDraws =>
               ~panicked' /\ touched' = {} /\ image' = image /\ out' = image

\* C7 as stated: the empty GlyphString has width 0 and height 0, text_size of
\* the empty text is (0, 0), and drawing it changes no pixel.
C7_Original == [][EmptyText(0)]_vars

\* C7 amended: the empty GlyphString has width 2 (the fixed padding) and
\* height 0, text_size of the empty text is (0, 0), and drawing it changes no
\* pixel.
C7_EmptyText == [][EmptyText(2)]_vars

\* width() was called on the empty GlyphString
C7_Witness ==
    /\ args.text = <<>>
    /\ last = "GlyphString::width"
    /\ ret = <<2>>

\* C8: for an origin that is not negative, an in-place draw after a copying
\* draw of the same arguments leaves on the surface the image the copying
\* draw returned, and two copying draws return the same image, whichever of
\* draw_text(_mut) and GlyphString::draw(_mut) each one is.
C8_Equivalent ==
    [][(args.x >= 0 /\ args.y >= 0 /\ last \in CopyingDraws /\ ~panicked') =>
          /\ last' \in InPlaceDraws => image' = out
          /\ last' \in CopyingDraws => out' = out]_vars

\* GlyphString::draw_mut changed the surface into what a copying draw returned
C8_Witness ==
    /\ last = "GlyphString::draw_mut"
    /\ calls = 2
    /\ args.x >= 0 /\ args.y >= 0
    /\ out = image
    /\ image # NewImage(image.w, image.h)

\* the image a plain draw produced: the surface, or the copy returned
Drawn == IF last \in InPlaceDraws THEN image ELSE out

\* C10: after a plain draw, a surface coordinate all of whose samples have
\* coverage 0 keeps its pixel, and one all of whose samples have coverage 1
\* holds the colour.
C10_Extremes ==
    [][(last' \in PlainDraws /\ ~panicked') =>
          \A c \in Coords(image) :
              /\ CoveragesAt(c) = {0} => Drawn'.px[c] = image.px[c]
              /\ CoveragesAt(c) = {CovDen} => Drawn'.px[c] = args.color]_vars

\* a first draw with a sample of coverage 0 and one of coverage 1 on the surface
C10_Witness ==
    /\ last = "draw_text_mut"
    /\ calls = 1
    /\ \E c \in Coords(image) :
           CoveragesAt(c) = {0} /\ image.px[c] = NewImage(image.w, image.h).px[c]
    /\ \E c \in Coords(image) :
           /\ CoveragesAt(c) = {CovDen}
           /\ image.px[c] = args.color
           /\ image.px[c] # NewImage(image.w, image.h).px[c]

-----------------------------------------------------------------------------
(* The anchor *)

AnchorOps == {"find_text_area_coordinates",
              "GlyphString::draw_positioned_mut", "GlyphString::draw_positioned"}

\* the content size the last anchor was computed for
AnchorWidth ==
    IF last = "find_text_area_coordinates" THEN args.width
    ELSE GlyphString_width(GlyphString_new(args.text))
AnchorHeight ==
    IF last = "find_text_area_coordinates" THEN args.height
    ELSE GlyphString_height(GlyphString_new(args.text))

\* the content is no larger than the rectangle
Fits(w, h) == w <= args.rectangle.width /\ h <= args.rectangle.height

\* slide(rect_len, content_len, e) of the specification, over the integers
slide(rect_len, content_len, e) == ((rect_len - content_len) * e) \div 100

\* the origin the specification's formulas give
FormulaOrigin(position, r, w, h) ==
    CASE position.kind = "HorizontalTop" ->
            <<r.left + slide(r.width, w, position.e), r.top>>
      [] position.kind = "HorizontalCenter" ->
            <<r.left + slide(r.width, w, position.e), r.top + (r.height - h) \div 2>>
      [] position.kind = "HorizontalBottom" ->
            <<r.left + slide(r.width, w, position.e), Rect_bottom(r) - h>>
      [] position.kind = "VerticalLeft" ->
            <<r.left, r.top + slide(r.height, h, position.e)>>
      [] position.kind = "VerticalCenter" ->
            <<r.left + (r.width - w) \div 2, r.top + slide(r.height, h, position.e)>>
      [] position.kind = "VerticalRight" ->
            <<Rect_right(r) - w, r.top + slide(r.height, h, position.e)>>
      [] position.kind = "Any" ->
            <<r.left + slide(r.width, w, position.e),
              r.top + slide(r.height, h, position.v)>>

\* the specification's example: a content of 20 x 10 in the rectangle
\* (0, 0, 100, 50)
Example(position) ==
    /\ last = "find_text_area_coordinates"
    /\ args.rectangle = Rect_at(0, 0, 100, 50)
    /\ args.width = 20 /\ args.height = 10
    /\ args.position = position

\* C3: for content that fits the rectangle, the anchor is the origin of the
\* specification's formulas for every Position variant; in the example,
\* HorizontalCenter(center) gives (40, 20), VerticalRight(bottom) gives
\* (80, 40) and Any(left, top) gives (0, 0).
C3_Formulas ==
    /\ (last \in AnchorOps /\ Fits(AnchorWidth, AnchorHeight)) =>
           /\ ~panicked
           /\ ret = FormulaOrigin(args.position, args.rectangle, AnchorWidth, AnchorHeight)
    /\ Example(Position("HorizontalCenter", EdgePosition_center, EdgePosition_center))
           => ret = <<40, 20>>
    /\ Example(Position("VerticalRight", EdgePosition_bottom, EdgePosition_bottom))
           => ret = <<80, 40>>
    /\ Example(Position("Any", EdgePosition_left, EdgePosition_top))
           => ret = <<0, 0>>

\* the anchor of the example for VerticalRight(bottom)
C3_Witness ==
    /\ Example(Position("VerticalRight", EdgePosition_bottom, EdgePosition_bottom))
    /\ ret = <<80, 40>>

\* the paddings on two opposite sides differ by at most 1
Balanced(before, after) == before - after \in {-1, 0, 1}

\* C4: for content that fits the rectangle and an EdgePosition in 0..100,
\* the text area at the anchor lies inside the rectangle, and for
\* HorizontalCenter and VerticalCenter at EdgePosition::center() the
\* paddings on opposite sides differ by at most 1.
C4_Inside ==
    (last \in AnchorOps /\ Fits(AnchorWidth, AnchorHeight)) =>
        /\ ~panicked
        /\ Len(ret) = 2
        /\ LET r == args.rectangle
               x == ret[1]
               y == ret[2]
           IN  /\ r.left <= x
               /\ x + AnchorWidth <= r.left + r.width
               /\ r.top <= y
               /\ y + AnchorHeight <= r.top + r.height
               /\ (/\ args.position.kind \in {"HorizontalCenter", "VerticalCenter"}
                   /\ args.position.e = EdgePosition_center)
                      => /\ Balanced(x - r.left, r.left + r.width - (x + AnchorWidth))
                         /\ Balanced(y - r.top, r.top + r.height - (y + AnchorHeight))

\* a centred text was drawn where the space left over is odd
C4_Witness ==
    /\ last = "GlyphString::draw_positioned_mut"
    /\ args.position.kind = "HorizontalCenter"
    /\ args.position.e = EdgePosition_center
    /\ Fits(AnchorWidth, AnchorHeight)
    /\ (args.rectangle.width - AnchorWidth) % 2 = 1
    /\ (args.rectangle.height - AnchorHeight) % 2 = 1
    /\ ~panicked
    /\ Len(ret) = 2

\* C9 as stated: for content larger than the rectangle the anchor is still
\* computed, by wrapping arithmetic, and a coordinate pair is returned.
C9_Original ==
    (last \in AnchorOps /\ ~Fits(AnchorWidth, AnchorHeight)) =>
        ~panicked /\ Len(ret) = 2

-----------------------------------------------------------------------------
(* Several runs *)

RunWidth(i) == GlyphString_width(GlyphString_new(args.runs[i]))
RunHeight(i) == GlyphString_height(GlyphString_new(args.runs[i]))

\* the sum of the widths of the first k runs
RECURSIVE WidthOfFirst(_)
WidthOfFirst(k) == IF k = 0 THEN 0 ELSE WidthOfFirst(k - 1) + RunWidth(k)

\* the largest height of the first k runs
RECURSIVE HeightOfFirst(_)
HeightOfFirst(k) == IF k = 0 THEN 0 ELSE Max(HeightOfFirst(k - 1), RunHeight(k))

BlockWidth == WidthOfFirst(Len(args.runs))
BlockHeight == HeightOfFirst(Len(args.runs))

\* the anchor of the whole block
BlockAnchor == find_text_area_coordinates(args.position, args.rectangle,
                                          BlockWidth, BlockHeight)

Multi == "GlyphStrings::draw_positioned_mut"

\* C5: the block's width is the sum of the runs' widths and its height the
\* largest of their heights; one origin (x0, y) is resolved for the block and
\* the i-th run drawn is run i, at x0 plus the widths of the runs before it
\* (in u32) and at y.
C5_LeftToRight ==
    /\ last = "GlyphStrings::width" => ret = <<BlockWidth>>
    /\ last = "GlyphStrings::height" => ret = <<BlockHeight>>
    /\ (last = Multi /\ ~panicked) =>
           /\ ret = BlockAnchor.xy
           /\ \A i \in 1..Len(origins) :
                  /\ origins[i].run = i
                  /\ origins[i].x = WrapAdd(ret[1], WidthOfFirst(i - 1))
                  /\ origins[i].y = ret[2]

\* the specification's example: runs of widths 10, 15, 12 from x0 = 5
C5_Witness ==
    /\ last = Multi
    /\ Len(args.runs) = 3
    /\ Len(origins) = 3
    /\ <<RunWidth(1), RunWidth(2), RunWidth(3)>> = <<10, 15, 12>>
    /\ ret[1] = 5
    /\ <<origins[1].x, origins[2].x, origins[3].x>> = <<5, 15, 30>>
    /\ origins[1].y = origins[3].y

\* C6: min(#runs, #colours) runs are drawn, the leading ones, each in the
\* colour of its index; the anchor is that of all the runs; and a block that
\* fits the rectangle is drawn without failure whatever the two lengths.
C6_TruncatingZip ==
    last = Multi =>
        /\ Fits(BlockWidth, BlockHeight) => ~panicked
        /\ ~panicked =>
               /\ ret = BlockAnchor.xy
               /\ Len(origins) = Min(Len(args.runs), Len(args.colors))
               /\ \A i \in 1..Len(origins) :
                      origins[i].run = i /\ origins[i].color = args.colors[i]

\* three runs and two colours: the third run was not drawn
C6_Witness ==
    /\ last = Multi
    /\ ~panicked
    /\ Len(args.runs) = 3
    /\ Len(args.colors) = 2
    /\ Len(origins) = 2
    /\ touched # {}

====
